---- MODULE Spec2Model ----
(***************************************************************************)
(* State-machine model of gopay_service: the Gopay session object          *)
(* (gopay.py), the endpoint catalogue (rest.py) and the transport adapter  *)
(* (core.py).                                                              *)
(*                                                                         *)
(* Encoding conventions                                                    *)
(*   - A Python Optional is a sequence of length 0 (None / attribute not   *)
(*     set) or 1 (the value).                                              *)
(*   - A URL is the sequence of its "/"-separated parts, the API root      *)
(*     first; an empty trailing part is the empty string.                  *)
(*   - A Python dict with string keys is a record (a function on strings); *)
(*     an ordered dict whose order matters is a sequence of [key, value].  *)
(*   - Every handler is one atomic action in Spec and SpecReshape; in      *)
(*     SpecConcurrent two threads run wrapper line by line.  An exception  *)
(*     that escapes a handler is recorded in outcome.raised; the           *)
(*     assignments made before the raise are kept, as in Python.           *)
(***************************************************************************)
EXTENDS Integers, Sequences, FiniteSets, TLC

None == <<>>
Some(x) == <<x>>

(***************************************************************************)
(* Bounds of the model                                                     *)
(***************************************************************************)
\* how many times the wall clock is advanced in one behaviour
MaxAdvances == 1

\* the steps by which the wall clock is advanced between operations
Delays == {1799, 1800, 1801, 86500}

(***************************************************************************)
(* Credentials: the dataclass fields of Gopay set by the caller            *)
(***************************************************************************)
CLIENT_ID == "client-id"
CLIENT_SECRET == "client-secret"
GOID == "8123456789"
API_ROOT == "https://gw.sandbox.gopay.com/api"
SCOPE == "payment-all"

Credentials ==
    [client_id |-> CLIENT_ID, client_secret |-> CLIENT_SECRET, goid |-> GOID,
     api_root |-> API_ROOT, scope |-> SCOPE]

(***************************************************************************)
(* Python values                                                           *)
(***************************************************************************)
\* gopay_types.token_or_credentials: a str (bearer token), a tuple
\* (client id, client secret), or None
PyStr(s) == [isstr |-> TRUE, str |-> s, tuple |-> <<>>]
PyTuple(t) == [isstr |-> FALSE, str |-> "", tuple |-> t]
PyNone == [isstr |-> FALSE, str |-> "", tuple |-> <<>>]

\* gopay_types.api_date: a 'YYYY-MM-DD' str or a datetime.date (a day number)
DateStr(s) == [isstr |-> TRUE, str |-> s, day |-> 0]
DateObj(d) == [isstr |-> FALSE, str |-> "", day |-> d]

\* date.isoformat() of the day number d, day 0 being the day the process
\* started
IsoDates == <<"2021-03-01", "2021-03-02", "2021-03-03", "2021-03-04",
              "2021-03-05", "2021-03-06">>
isoformat(d) == IsoDates[d + 1]

\* str(x) of an api_date
str(x) == IF x.isstr THEN x.str ELSE isoformat(x.day)

\* the length of a day in seconds: datetime.timedelta keeps a duration as
\* (days, seconds, microseconds) with 0 <= seconds < SECONDS_PER_DAY
SECONDS_PER_DAY == 86400

\* date.today() at wall-clock time t
date_today(t) == DateObj(t \div SECONDS_PER_DAY)

(***************************************************************************)
(* JSON documents of the gateway (a dict: x.get(k) is None when k is       *)
(* missing)                                                                *)
(***************************************************************************)
EmptyDoc ==
    [access_token |-> None, enabledPaymentInstruments |-> None,
     id |-> None, gw_url |-> None, errors |-> None]

TokenDoc(t) == [EmptyDoc EXCEPT !.access_token = Some(t)]
CatalogueDoc(c) == [EmptyDoc EXCEPT !.enabledPaymentInstruments = Some(c)]
PaymentDoc == [EmptyDoc EXCEPT !.id = Some("123"), !.gw_url = Some("https://pay/x")]
ErrorDoc == [EmptyDoc EXCEPT !.errors = Some("error")]

(***************************************************************************)
(* Raw instrument catalogues: an ordered dict instrument name -> entry.    *)
(* currencies is the list of currency codes (for BANK_ACCOUNT and for a    *)
(* SWIFT entry: the keys of the currencies mapping, in order).             *)
(***************************************************************************)
Entry(key, cs, currencies, swifts) ==
    [key |-> key,
     value |-> [label |-> [cs |-> cs], image |-> [large |-> "img-" \o key],
                currencies |-> currencies, enabledSwifts |-> swifts]]

CatFull ==
    << Entry("PAYMENT_CARD", "Karta", <<"CZK", "EUR">>, None),
       Entry("BANK_ACCOUNT", "Prevod", <<"CZK", "EUR">>,
             Some(<< Entry("AAAA", "Banka A", <<"CZK">>, None),
                     Entry("BBBB", "Banka B", <<"EUR">>, None) >>)) >>

CatEur ==
    << Entry("BANK_ACCOUNT", "Prevod", <<"EUR">>,
             Some(<< Entry("BBBB", "Banka B", <<"EUR">>, None) >>)),
       Entry("GPAY", "Google Pay", <<"EUR">>, None) >>

CatNoBank ==
    << Entry("PAYMENT_CARD", "Karta", <<"CZK">>, None) >>

Catalogues == {CatFull, CatEur, CatNoBank}

\* the catalogues the reshaping is examined on: a card instrument, alone or
\* before or after a BANK_ACCOUNT instrument with or without enabledSwifts
Swift(key, currencies) == Entry(key, "Banka " \o key, currencies, None)

SwiftLists ==
    { <<>>,
      << Swift("AAAA", <<"CZK">>) >>,
      << Swift("AAAA", <<"CZK">>), Swift("BBBB", <<"EUR">>) >>,
      << Swift("CCCC", <<"USD">>), Swift("AAAA", <<"CZK">>) >>,
      << Swift("BBBB", <<"EUR">>), Swift("DDDD", <<"EUR">>) >> }

CardCurrencies == { <<>>, <<"CZK">>, <<"PLN", "CZK">>, <<"USD", "EUR">> }

Cards == {Entry("PAYMENT_CARD", "Karta", c, None) : c \in CardCurrencies}

Banks ==
    {Entry("BANK_ACCOUNT", "Prevod", <<"CZK", "EUR">>, s) :
        s \in {None} \cup {Some(l) : l \in SwiftLists}}

RawCatalogues ==
    {<<c>> : c \in Cards}
        \cup {<<c, b>> : c \in Cards, b \in Banks}
        \cup {<<b, c>> : c \in Cards, b \in Banks}

\* dict.get(key) on an ordered dict
DictGet(d, key) ==
    IF \E i \in 1..Len(d) : d[i].key = key
    THEN Some((d[CHOOSE i \in 1..Len(d) : d[i].key = key]).value)
    ELSE None

(***************************************************************************)
(* What the gateway can answer (the raw HTTP response seen by requests)    *)
(***************************************************************************)
Http(status, isjson, doc, text) ==
    [status_code |-> status, isjson |-> isjson, json |-> doc, text |-> text,
     content_type |-> IF isjson THEN "application/json" ELSE "text/html"]

AccessTokens == {"T1", "T2"}

\* the token endpoint: a token, or a refusal.  A gateway that keeps the
\* OAuth2 contract answers a granted request with a JSON object that has an
\* access_token; the operators below also say what the code does with any
\* other successful answer.
TokenAnswers ==
    {Http(200, TRUE, TokenDoc(t), "") : t \in AccessTokens}
        \cup {Http(401, TRUE, ErrorDoc, "")}

\* the payment-instruments endpoint: a catalogue, or a refusal
MethodsAnswers ==
    {Http(200, TRUE, CatalogueDoc(c), "") : c \in Catalogues}
        \cup {Http(401, TRUE, ErrorDoc, "")}

\* the payment-instruments endpoint answering with any of the catalogues the
\* reshaping is examined on
CatalogueAnswers ==
    {Http(200, TRUE, CatalogueDoc(c), "") : c \in RawCatalogues}
        \cup {Http(401, TRUE, ErrorDoc, "")}

\* every other endpoint
OtherAnswers ==
    {Http(200, TRUE, PaymentDoc, ""), Http(304, FALSE, EmptyDoc, ""),
     Http(404, TRUE, ErrorDoc, "")}

(***************************************************************************)
(* core.py: the transport adapter                                          *)
(***************************************************************************)
\* requests.Response.ok: raise_for_status() raises for 400 <= status < 600
ok(status_code) == ~(400 <= status_code /\ status_code < 600)

\* api_call: the request handed to requests and the result dict built from
\* the response.  session is the answer the gateway gives to this request.
api_call(url, method, auth, body, content, session) ==
    LET request ==
            [method |-> method, url |-> url,
             json |-> IF content = "JSON" THEN body ELSE None,
             data |-> IF content = "FORM" THEN body ELSE None,
             content_type |->
                 IF content = "JSON" THEN Some("application/json")
                 ELSE IF content = "FORM"
                      THEN Some("application/x-www-form-urlencoded")
                      ELSE None,
             authorization |->
                 IF auth.isstr THEN Some(<<"Bearer", auth.str>>) ELSE None,
             auth |-> IF auth.isstr THEN <<>> ELSE auth.tuple]
        response == session
        response_body ==
            IF response.isjson
            THEN [isdict |-> TRUE, dict |-> response.json, text |-> ""]
            ELSE [isdict |-> FALSE, dict |-> EmptyDoc, text |-> response.text]
        result ==
            [success |-> ok(response.status_code),
             status |-> response.status_code,
             body |-> response_body,
             content_type |-> response.content_type]
    IN  [request |-> request, result |-> result]

\* what a call of a rest function gives: the exchange it made and returned,
\* or the exception it raised before making one
Returned(exchange) == [raised |-> "", exchange |-> Some(exchange)]
Raised(exception) == [raised |-> exception, exchange |-> None]

(***************************************************************************)
(* rest.py: the endpoint catalogue                                         *)
(***************************************************************************)
rest_get_token(api_root, client_id, client_secret, body, session) ==
    Returned(api_call(<<api_root, "oauth2", "token">>, "POST",
                      PyTuple(<<client_id, client_secret>>), Some(body), "FORM",
                      session))

rest_create_payment(api_root, token, body, session) ==
    Returned(api_call(<<api_root, "payments", "payment">>, "POST", token,
                      Some(body), "JSON", session))

rest_payment_status(api_root, token, id, session) ==
    Returned(api_call(<<api_root, "payments", "payment", id>>, "GET", token,
                      None, "None", session))

rest_refund_payment(api_root, token, id, body, session) ==
    Returned(api_call(<<api_root, "payments", "payment", id, "refund">>,
                      "POST", token, Some(body), "FORM", session))

rest_create_recurrence(api_root, token, id, body, session) ==
    Returned(api_call(<<api_root, "payments", "payment", id, "create-recurrence">>,
                      "POST", token, Some(body), "JSON", session))

rest_void_recurrence(api_root, token, id, session) ==
    Returned(api_call(<<api_root, "payments", "payment", id, "void-recurrence">>,
                      "POST", token, None, "None", session))

rest_capture_preauthorization(api_root, token, id, session) ==
    Returned(api_call(<<api_root, "payments", "payment", id, "capture">>,
                      "POST", token, None, "None", session))

rest_capture_preauthorization_partial(api_root, token, id, body, session) ==
    Returned(api_call(<<api_root, "payments", "payment", id, "capture">>,
                      "POST", token, Some(body), "JSON", session))

rest_void_preauthorization(api_root, token, id, session) ==
    Returned(api_call(<<api_root, "payments", "payment", id, "void-authorization">>,
                      "POST", token, None, "None", session))

\* the last part of the URL is f"{currency if currency else ''}"
rest_get_payment_methods(api_root, token, goid, currency, session) ==
    Returned(api_call(<<api_root, "eshops", "eshop", goid, "payment-instruments",
                        IF currency # None /\ currency[1] # "" THEN currency[1] ELSE "">>,
                      "GET", token, None, "None", session))

rest_account_statement(api_root, token, body, session) ==
    Returned(api_call(<<api_root, "accounts", "account-statement">>, "POST",
                      token, Some(body), "JSON", session))

rest_payment_eet_receipts(api_root, token, id, session) ==
    Returned(api_call(<<api_root, "payments", "payment", id, "eet-receipts">>,
                      "GET", token, None, "None", session))

\* the body of eet_receipts calls api_root(...), and api_root is a str:
\* TypeError ('str' object is not callable), no request is made
rest_eet_receipts(api_root, token, body, session) ==
    Raised("TypeError")

(***************************************************************************)
(* gopay.py: the state of a Gopay object and of its surroundings           *)
(***************************************************************************)
VARIABLES
    credentials,    \* Gopay.client_id, client_secret, goid, api_root, scope
    phase,          \* "UNINITIALIZED", "READY", or "FAILED" (__post_init__ raised: there is no object)
    now,            \* the wall clock read by datetime.now(), in seconds since the process started
    advances,       \* how many times the clock was advanced
    token,          \* Gopay._token: None while the attribute is not set
    token_created,  \* Gopay._token_created (first written before it is first read)
    last_response,  \* Gopay._last_response: None while the attribute is not set
    enabled_payment_instruments,    \* Gopay._enabled_payment_instruments, None while not set
    enabled_swifts, \* Gopay._enabled_swifts, None while not set
    last_op,        \* history: the most recent step (operation and arguments)
    wire,           \* history: the exchanges api_call made during the most recent step
    last_exchange,  \* history: the most recent exchange api_call made
    acquired,       \* history: when the token in use was acquired and what the gateway returned
    outcome,        \* history: what the most recent step returned or raised
    callers         \* the calls in flight when two threads call the object: where each is in wrapper

vars ==
    <<credentials, phase, now, advances, token, token_created, last_response,
      enabled_payment_instruments, enabled_swifts, last_op, wire,
      last_exchange, acquired, outcome, callers>>

\* the threads that call one object at the same time
Callers == {"c1", "c2"}

\* a thread that has not called yet
Idle == [pc |-> "idle", observed |-> None, wire |-> <<>>]

\* the object (self) and its surroundings at the start of a handler
Self ==
    [credentials |-> credentials, now |-> now, token |-> token, token_created |-> token_created,
     last_response |-> last_response,
     enabled_payment_instruments |-> enabled_payment_instruments,
     enabled_swifts |-> enabled_swifts,
     wire |-> <<>>, last_exchange |-> last_exchange, acquired |-> acquired,
     raised |-> "", ret |-> None]

\* an exception leaves the handler
Raise(self, exception) == [self EXCEPT !.raised = exception, !.ret = None]

\* api_call was run: the exchange went over the wire
Sent(self, exchange) ==
    [self EXCEPT !.wire = Append(@, exchange), !.last_exchange = Some(exchange)]

\* GopayResponse(**response)
GopayResponse(response) ==
    [success |-> response.success, status |-> response.status,
     content_type |-> response.content_type, body |-> response.body]

\* the slip of returning the response without recording it
_handle_response_unrecorded(self, response) ==
    [self EXCEPT !.ret = Some(GopayResponse(response))]

_handle_response(self, response) ==
    [self EXCEPT !.last_response = Some(GopayResponse(response)),
                 !.ret = Some(GopayResponse(response))]

\* datetime.timedelta.seconds of a non-negative duration of diff seconds
timedelta_seconds(diff) == diff % SECONDS_PER_DAY

\* the slip of treating the last second of the window as expired
_token_expired_inclusive(self) ==
    LET diff == self.now - self.token_created
    IN  timedelta_seconds(diff) >= 1800

_token_expired(self) ==
    LET diff == self.now - self.token_created
    IN  timedelta_seconds(diff) > 1800

\* _get_token, lines 109-110: the token is stored if the request succeeded
_get_token_store(self, response) ==
    IF response.success
    THEN IF response.body.isdict
         THEN [self EXCEPT
                  !.token = Some(IF response.body.dict.access_token = None
                                 THEN PyNone
                                 ELSE PyStr(response.body.dict.access_token[1])),
                  !.acquired = Some([at |-> self.now,
                                     access_token |-> response.body.dict.access_token])]
         ELSE Raise(self, "AttributeError")     \* str has no get
    ELSE self

\* _get_token, lines 101-110: the exchange was made
_get_token_response(self, exchange) ==
    _get_token_store(
        [_handle_response(Sent(self, exchange), exchange.result) EXCEPT !.ret = None],
        exchange.result)

\* session is the answer of the gateway to the token request
_get_token(self, session) ==
    _get_token_response(
        [self EXCEPT !.token_created = self.now],
        rest_get_token(self.credentials.api_root, self.credentials.client_id,
                       self.credentials.client_secret,
                       [scope |-> self.credentials.scope,
                        grant_type |-> "client_credentials"],
                       session).exchange[1])

_parse_entry(key, value) ==
    [name |-> key, label |-> value.label.cs, image |-> value.image.large,
     currencies |-> value.currencies]

_parse_entries(gopay_entries) ==
    [i \in 1..Len(gopay_entries) |->
        _parse_entry(gopay_entries[i].key, gopay_entries[i].value)]

\* the elements of a list
Range(s) == {s[i] : i \in DOMAIN s}

\* the currency codes of the catalogues, in the order of str
CurrencyCodes == <<"CZK", "EUR", "PLN", "USD">>

\* sorted(list(set(currencies))) of currency codes
sorted(currencies) == SelectSeq(CurrencyCodes, LAMBDA c : c \in currencies)

_filter_out_currency(instrument) ==
    [name |-> instrument.name, label |-> instrument.label,
     image |-> instrument.image]

\* the slip of leaving out the condition of the list comprehension
_get_entries_listing_all(parsed_entries, currency) ==
    parsed_entries

\* _get_entries, lines 140-142: the instruments with currency in their
\* currencies, in the order of parsed_entries
_get_entries_listing(parsed_entries, currency) ==
    SelectSeq(parsed_entries,
              LAMBDA instrument : currency \in Range(instrument.currencies))

\* _get_entries, lines 138-143: one key per currency, in the order of
\* currencies
_get_entries_final(parsed_entries, currencies) ==
    [j \in 1..Len(currencies) |->
        [key |-> currencies[j],
         value |->
            [i \in 1..Len(_get_entries_listing(parsed_entries, currencies[j])) |->
                _filter_out_currency(
                    _get_entries_listing(parsed_entries, currencies[j])[i])]]]

\* both branches on swifts collect the same codes here: currencies holds
\* the codes of a list and the keys of a mapping alike
_get_entries(parsed_entries, swifts) ==
    _get_entries_final(parsed_entries,
        sorted(UNION {Range(parsed_entries[i].currencies) :
                        i \in DOMAIN parsed_entries}))

\* the slip of assigning the key instead of defaulting it
setdefault_overwrite(d, key, default) ==
    [k \in DOMAIN d \cup {key} |-> IF k = key THEN default ELSE d[k]]

\* dict.setdefault
setdefault(d, key, default) ==
    IF key \in DOMAIN d THEN d ELSE d @@ (key :> default)

(***************************************************************************)
(* The public methods, before decoration                                   *)
(***************************************************************************)
create_payment(self, body, config) ==
    rest_create_payment(config.api_root, config.token,
                        setdefault(body, "target",
                                   [type |-> "ACCOUNT", goid |-> self.credentials.goid]),
                        config.session)

payment_status(self, id, config) ==
    rest_payment_status(config.api_root, config.token, id, config.session)

payment_eet_receipts(self, id, config) ==
    rest_payment_eet_receipts(config.api_root, config.token, id, config.session)

refund_payment(self, id, amount, config) ==
    rest_refund_payment(config.api_root, config.token, id, [amount |-> amount],
                        config.session)

create_recurrence(self, id, body, config) ==
    rest_create_recurrence(config.api_root, config.token, id, body, config.session)

void_recurrence(self, id, config) ==
    rest_void_recurrence(config.api_root, config.token, id, config.session)

capture_preauthorization(self, id, config) ==
    rest_capture_preauthorization(config.api_root, config.token, id, config.session)

capture_preauthorization_partial(self, id, body, config) ==
    rest_capture_preauthorization_partial(config.api_root, config.token, id, body,
                                          config.session)

void_preauthorization(self, id, config) ==
    rest_void_preauthorization(config.api_root, config.token, id, config.session)

fetch_payment_methods(self, currency, config) ==
    rest_get_payment_methods(config.api_root, config.token,
                             self.credentials.goid, currency, config.session)

\* when the class body was executed (the module was imported): the default
\* of date_to, date.today(), was evaluated then
IMPORT_TIME == 0

account_statement(self, currency, format, date_from, date_to, config) ==
    LET date_to_ == IF date_to = None THEN date_today(IMPORT_TIME) ELSE date_to[1]
    IN  rest_account_statement(config.api_root, config.token,
            [date_from |-> str(date_from), date_to |-> str(date_to_),
             goid |-> self.credentials.goid, currency |-> currency,
             format |-> format],
            config.session)

eet_receipts(self, id_provozovny, date_from, date_to, config) ==
    LET date_to_ == IF date_to = None THEN date_today(IMPORT_TIME) ELSE date_to[1]
    IN  rest_eet_receipts(config.api_root, config.token,
            [date_from |-> str(date_from), date_to |-> str(date_to_),
             id_provozovny |-> id_provozovny],
            config.session)

\* a call: the method and the arguments it is called with
Op(name) ==
    [name |-> name, id |-> "", body |-> None, amount |-> 0, currency |-> None,
     format |-> "", date_from |-> None, date_to |-> None]

\* the decorated method func(self, *args, **kwargs, **config) of a call op
func(self, op, config) ==
    CASE op.name = "create_payment" ->
            create_payment(self, op.body[1], config)
      [] op.name = "payment_status" ->
            payment_status(self, op.id, config)
      [] op.name = "payment_eet_receipts" ->
            payment_eet_receipts(self, op.id, config)
      [] op.name = "refund_payment" ->
            refund_payment(self, op.id, op.amount, config)
      [] op.name = "create_recurrence" ->
            create_recurrence(self, op.id, op.body[1], config)
      [] op.name = "void_recurrence" ->
            void_recurrence(self, op.id, config)
      [] op.name = "capture_preauthorization" ->
            capture_preauthorization(self, op.id, config)
      [] op.name = "capture_preauthorization_partial" ->
            capture_preauthorization_partial(self, op.id, op.body[1], config)
      [] op.name = "void_preauthorization" ->
            void_preauthorization(self, op.id, config)
      [] op.name = "fetch_payment_methods" ->
            fetch_payment_methods(self, op.currency, config)
      [] op.name = "account_statement" ->
            account_statement(self, op.currency[1], op.format, op.date_from[1],
                              op.date_to, config)
      [] op.name = "eet_receipts" ->
            eet_receipts(self, op.id, op.date_from[1], op.date_to, config)

\* the slip of storing the catalogue of every response that has one
wrapper_return_storing(self, response) ==
    IF response.raised # ""
    THEN Raise(self, response.raised)
    ELSE [_handle_response(Sent(self, response.exchange[1]),
                           response.exchange[1].result)
            EXCEPT !.enabled_payment_instruments =
                IF /\ response.exchange[1].result.body.isdict
                   /\ response.exchange[1].result.body.dict.enabledPaymentInstruments # None
                THEN Some(_parse_entries(
                        response.exchange[1].result.body.dict.enabledPaymentInstruments[1]))
                ELSE @]

\* wrapper, line 89: what func returned is recorded and returned
wrapper_return(self, response) ==
    IF response.raised # ""
    THEN Raise(self, response.raised)
    ELSE _handle_response(Sent(self, response.exchange[1]),
                          response.exchange[1].result)

\* wrapper, lines 81-89: func is called with the token of the object
wrapper_call(self, op, session) ==
    IF self.raised # "" THEN self
    ELSE IF self.token = None
         THEN Raise(self, "AttributeError")     \* self._token is not set
         ELSE wrapper_return(self,
                  func(self, op, [api_root |-> self.credentials.api_root,
                                  token |-> self.token[1],
                                  session |-> session]))

\* the slip of looking at the age of the token again before asking for one
wrapper_get_token_rechecking(self, refresh) ==
    IF _token_expired(self) THEN _get_token(self, refresh) ELSE self

\* wrapper, line 79: the branch taken when line 78 found the token expired
wrapper_get_token(self, refresh) ==
    _get_token(self, refresh)

\* the decorator: op is the decorated method and the arguments of the call;
\* refresh and session are the answers of the gateway to the token request
\* (if one is made) and to the request of the method
api_request(self, op, refresh, session) ==
    wrapper_call(IF _token_expired(self) THEN _get_token(self, refresh) ELSE self,
                 op, session)

\* _get_payment_methods, line 157: the SWIFT entries are parsed and stored
_get_payment_methods_swifts(self, enabled_swifts_) ==
    IF enabled_swifts_ = None
    THEN Raise(self, "AttributeError")      \* None has no items
    ELSE [self EXCEPT !.enabled_swifts = Some(_parse_entries(enabled_swifts_[1]))]

\* _get_payment_methods, lines 151-157
_get_payment_methods_bank(self, enabled_payment_instruments_, bank) ==
    IF bank = None
    THEN Raise(self, "AttributeError")      \* None has no get
    ELSE _get_payment_methods_swifts(
            [self EXCEPT !.enabled_payment_instruments =
                            Some(_parse_entries(enabled_payment_instruments_))],
            bank[1].enabledSwifts)

\* the slip of leaving out the test of response.success
_get_payment_methods_response_unguarded(self, response) ==
    IF ~response.body.isdict
    THEN Raise(self, "AttributeError")
    ELSE IF response.body.dict.enabledPaymentInstruments = None
         THEN Raise(self, "AttributeError")
         ELSE _get_payment_methods_bank(self,
                   response.body.dict.enabledPaymentInstruments[1],
                   DictGet(response.body.dict.enabledPaymentInstruments[1],
                           "BANK_ACCOUNT"))

\* _get_payment_methods, lines 149-157: response is what
\* fetch_payment_methods returned
_get_payment_methods_response(self, response) ==
    IF ~response.success THEN self
    ELSE IF ~response.body.isdict
         THEN Raise(self, "AttributeError")     \* str has no get
         ELSE IF response.body.dict.enabledPaymentInstruments = None
              THEN Raise(self, "AttributeError")    \* None has no get
              ELSE _get_payment_methods_bank(self,
                        response.body.dict.enabledPaymentInstruments[1],
                        DictGet(response.body.dict.enabledPaymentInstruments[1],
                                "BANK_ACCOUNT"))

\* _get_payment_methods, lines 148-157: self is the object after the call
\* of fetch_payment_methods
_get_payment_methods_fetched(self) ==
    IF self.raised # "" THEN self
    ELSE _get_payment_methods_response([self EXCEPT !.ret = None], self.ret[1])

_get_payment_methods(self, refresh, session) ==
    _get_payment_methods_fetched(
        api_request(self, Op("fetch_payment_methods"), refresh, session))

\* the property payment_instruments
payment_instruments(self) ==
    IF self.enabled_payment_instruments = None
    THEN Raise(self, "AttributeError")  \* _enabled_payment_instruments is not set
    ELSE [self EXCEPT
             !.ret = Some(_get_entries(self.enabled_payment_instruments[1], FALSE))]

\* the property enabled_swifts
enabled_swifts_property(self) ==
    IF self.enabled_swifts = None
    THEN Raise(self, "AttributeError")  \* _enabled_swifts is not set
    ELSE [self EXCEPT !.ret = Some(_get_entries(self.enabled_swifts[1], TRUE))]

(***************************************************************************)
(* The arguments the callers pass                                          *)
(***************************************************************************)
Ids == {"123"}

PaymentBodies ==
    { [amount |-> 12000, currency |-> "CZK", order_number |-> "x"],
      [amount |-> 12000, currency |-> "CZK", order_number |-> "x",
       target |-> [type |-> "ACCOUNT", goid |-> "8000000001"]] }

RecurrenceBodies == { [amount |-> 500, currency |-> "CZK", order_number |-> "r"] }

CaptureBodies == { [amount |-> 700] }

Amounts == {100}

Currencies == {None, Some("CZK")}

DatesFrom == {DateStr("2021-02-01")}

DatesTo == {None, Some(DateStr("2021-02-28"))}

PublicOps ==
    {"create_payment", "payment_status", "payment_eet_receipts", "refund_payment",
     "create_recurrence", "void_recurrence", "capture_preauthorization",
     "capture_preauthorization_partial", "void_preauthorization",
     "fetch_payment_methods", "account_statement", "eet_receipts"}

(***************************************************************************)
(* The state machine                                                       *)
(***************************************************************************)
Init ==
    /\ credentials = Credentials
    /\ phase = "UNINITIALIZED"
    /\ now = 0
    /\ advances = 0
    /\ token = None
    /\ token_created = 0
    /\ last_response = None
    /\ enabled_payment_instruments = None
    /\ enabled_swifts = None
    /\ last_op = Op("import")
    /\ wire = <<>>
    /\ last_exchange = None
    /\ acquired = None
    /\ outcome = [raised |-> "", ret |-> None]
    /\ callers = [t \in Callers |-> Idle]

\* the assignments and the result of a step that ended in self_ become
\* visible
Effects(self_, op, phase_) ==
    /\ credentials' = self_.credentials
    /\ phase' = phase_
    /\ token' = self_.token
    /\ token_created' = self_.token_created
    /\ last_response' = self_.last_response
    /\ enabled_payment_instruments' = self_.enabled_payment_instruments
    /\ enabled_swifts' = self_.enabled_swifts
    /\ last_op' = op
    /\ wire' = self_.wire
    /\ last_exchange' = self_.last_exchange
    /\ acquired' = self_.acquired
    /\ outcome' = [raised |-> self_.raised, ret |-> self_.ret]
    /\ UNCHANGED <<now, advances>>

\* the handler ended in self_, no other thread ran meanwhile
Commit(self_, op, phase_) ==
    /\ Effects(self_, op, phase_)
    /\ UNCHANGED callers

\* time passes between two operations on the object
Advance ==
    /\ phase = "READY"
    /\ advances < MaxAdvances
    /\ \E d \in Delays : now' = now + d
    /\ advances' = advances + 1
    /\ last_op' = Op("advance")
    /\ wire' = <<>>
    /\ outcome' = [raised |-> "", ret |-> None]
    /\ UNCHANGED <<credentials, phase, token, token_created, last_response,
                   enabled_payment_instruments, enabled_swifts, last_exchange,
                   acquired, callers>>

\* Gopay(**config): the generated __init__ sets the credentials and runs
\* __post_init__
__post_init__ ==
    /\ phase = "UNINITIALIZED"
    /\ \E refresh \in TokenAnswers, session \in MethodsAnswers :
        \E self1 \in {_get_token(Self, refresh)} :
        \E self2 \in {IF self1.raised # "" THEN self1
                      ELSE _get_payment_methods(self1, refresh, session)} :
            Commit(self2, Op("__post_init__"),
                   IF self2.raised # "" THEN "FAILED" ELSE "READY")

reload ==
    /\ phase = "READY"
    /\ \E refresh \in TokenAnswers, session \in MethodsAnswers :
        \E self1 \in {_get_token(Self, refresh)} :
        \E self2 \in {IF self1.raised # "" THEN self1
                      ELSE _get_payment_methods(self1, refresh, session)} :
            Commit(self2, Op("reload"), "READY")

\* the answers the token endpoint can give in a call of a decorated method:
\* it is asked only if the decorator finds the token expired
Refreshes ==
    IF _token_expired(Self) THEN TokenAnswers ELSE {Http(401, TRUE, ErrorDoc, "")}

\* a call of a decorated public method, answered by the gateway
Call(op, answers) ==
    \E refresh \in Refreshes, session \in answers :
        \E self1 \in {api_request(Self, op, refresh, session)} :
            Commit(self1, op, "READY")

call_create_payment ==
    /\ phase = "READY"
    /\ \E body \in PaymentBodies :
            Call([Op("create_payment") EXCEPT !.body = Some(body)], OtherAnswers)

call_payment_status ==
    /\ phase = "READY"
    /\ \E id \in Ids :
            Call([Op("payment_status") EXCEPT !.id = id], OtherAnswers)

call_payment_eet_receipts ==
    /\ phase = "READY"
    /\ \E id \in Ids :
            Call([Op("payment_eet_receipts") EXCEPT !.id = id], OtherAnswers)

call_refund_payment ==
    /\ phase = "READY"
    /\ \E id \in Ids, amount \in Amounts :
            Call([Op("refund_payment") EXCEPT !.id = id, !.amount = amount],
                 OtherAnswers)

call_create_recurrence ==
    /\ phase = "READY"
    /\ \E id \in Ids, body \in RecurrenceBodies :
            Call([Op("create_recurrence") EXCEPT !.id = id, !.body = Some(body)],
                 OtherAnswers)

call_void_recurrence ==
    /\ phase = "READY"
    /\ \E id \in Ids :
            Call([Op("void_recurrence") EXCEPT !.id = id], OtherAnswers)

call_capture_preauthorization ==
    /\ phase = "READY"
    /\ \E id \in Ids :
            Call([Op("capture_preauthorization") EXCEPT !.id = id], OtherAnswers)

call_capture_preauthorization_partial ==
    /\ phase = "READY"
    /\ \E id \in Ids, body \in CaptureBodies :
            Call([Op("capture_preauthorization_partial") EXCEPT !.id = id, !.body = Some(body)],
                 OtherAnswers)

call_void_preauthorization ==
    /\ phase = "READY"
    /\ \E id \in Ids :
            Call([Op("void_preauthorization") EXCEPT !.id = id], OtherAnswers)

call_fetch_payment_methods ==
    /\ phase = "READY"
    /\ \E currency \in Currencies :
            Call([Op("fetch_payment_methods") EXCEPT !.currency = currency],
                 MethodsAnswers)

call_account_statement ==
    /\ phase = "READY"
    /\ \E date_from \in DatesFrom, date_to \in DatesTo :
            Call([Op("account_statement") EXCEPT !.currency = Some("CZK"),
                     !.format = "PDF_A", !.date_from = Some(date_from),
                     !.date_to = date_to],
                 OtherAnswers)

call_eet_receipts ==
    /\ phase = "READY"
    /\ \E date_from \in DatesFrom, date_to \in DatesTo :
            Call([Op("eet_receipts") EXCEPT !.id = "11",
                     !.date_from = Some(date_from), !.date_to = date_to],
                 OtherAnswers)

Next ==
    \/ Advance
    \/ __post_init__
    \/ reload
    \/ call_create_payment
    \/ call_payment_status
    \/ call_payment_eet_receipts
    \/ call_refund_payment
    \/ call_create_recurrence
    \/ call_void_recurrence
    \/ call_capture_preauthorization
    \/ call_capture_preauthorization_partial
    \/ call_void_preauthorization
    \/ call_fetch_payment_methods
    \/ call_account_statement
    \/ call_eet_receipts

Spec == Init /\ [][Next]_vars

(***************************************************************************)
(* The reshaping of the catalogue: the object is constructed and reloaded  *)
(* against a gateway that answers with any of RawCatalogues, and the two   *)
(* tables are read through their properties.                               *)
(***************************************************************************)
construct_catalogue ==
    /\ phase = "UNINITIALIZED"
    /\ \E refresh \in TokenAnswers, session \in CatalogueAnswers :
        \E self1 \in {_get_token(Self, refresh)} :
        \E self2 \in {IF self1.raised # "" THEN self1
                      ELSE _get_payment_methods(self1, refresh, session)} :
            Commit(self2, Op("__post_init__"),
                   IF self2.raised # "" THEN "FAILED" ELSE "READY")

reload_catalogue ==
    /\ phase = "READY"
    /\ \E refresh \in TokenAnswers, session \in CatalogueAnswers :
        \E self1 \in {_get_token(Self, refresh)} :
        \E self2 \in {IF self1.raised # "" THEN self1
                      ELSE _get_payment_methods(self1, refresh, session)} :
            Commit(self2, Op("reload"), "READY")

get_payment_instruments ==
    /\ phase = "READY"
    /\ \E self1 \in {payment_instruments(Self)} :
            Commit(self1, Op("payment_instruments"), "READY")

get_enabled_swifts ==
    /\ phase = "READY"
    /\ \E self1 \in {enabled_swifts_property(Self)} :
            Commit(self1, Op("enabled_swifts"), "READY")

NextReshape ==
    \/ construct_catalogue
    \/ reload_catalogue
    \/ get_payment_instruments
    \/ get_enabled_swifts

SpecReshape == Init /\ [][NextReshape]_vars

(***************************************************************************)
(* Two threads call payment_status on one object.  A thread can be         *)
(* preempted between the lines of wrapper: after it looked at the age of   *)
(* the token (line 78), and after _get_token returned (line 79).           *)
(***************************************************************************)
\* line 78: the thread evaluates self._token_expired
enter_wrapper(t) ==
    /\ phase = "READY"
    /\ callers[t].pc = "idle"
    /\ callers' = [callers EXCEPT ![t] =
                    [pc |-> IF _token_expired(Self) THEN "stale" ELSE "fresh",
                     observed |-> Some(token_created), wire |-> <<>>]]
    /\ Effects(Self, Op("wrapper"), "READY")

\* line 79: the thread that found the token expired calls _get_token
refresh_token(t) ==
    /\ phase = "READY"
    /\ callers[t].pc = "stale"
    /\ \E refresh \in TokenAnswers :
        \E self1 \in {wrapper_get_token(Self, refresh)} :
            /\ Effects(self1, Op("_get_token"), "READY")
            /\ callers' = [callers EXCEPT ![t] =
                            [pc |-> IF self1.raised # "" THEN "done" ELSE "fresh",
                             observed |-> callers[t].observed,
                             wire |-> callers[t].wire \o self1.wire]]

\* lines 80-88: the thread calls func with the token of the object and
\* records what it returned
call_func(t) ==
    /\ phase = "READY"
    /\ callers[t].pc = "fresh"
    /\ \E id \in Ids, session \in OtherAnswers :
        \E self1 \in {wrapper_call(Self, [Op("payment_status") EXCEPT !.id = id],
                                   session)} :
            /\ Effects(self1, Op("func"), "READY")
            /\ callers' = [callers EXCEPT ![t] =
                            [pc |-> "done", observed |-> callers[t].observed,
                             wire |-> callers[t].wire \o self1.wire]]

NextConcurrent ==
    \/ __post_init__
    \/ Advance
    \/ \E t \in Callers : enter_wrapper(t)
    \/ \E t \in Callers : refresh_token(t)
    \/ \E t \in Callers : call_func(t)

SpecConcurrent == Init /\ [][NextConcurrent]_vars

(***************************************************************************)
(* Vocabulary of the properties                                            *)
(***************************************************************************)
IsTokenRequest(x) == x.request.url = <<API_ROOT, "oauth2", "token">>

TokenRequests(w) == {i \in DOMAIN w : IsTokenRequest(w[i])}

Bearer(x, t) == x.request.authorization = Some(<<"Bearer", t>>)

\* the encoding of the body of a request
Encoding(x) ==
    IF x.request.json # None THEN "JSON"
    ELSE IF x.request.data # None THEN "FORM" ELSE "NONE"

\* the endpoint table of the specification (its sections 4.2 and 6): the
\* path below the API root, the verb and the body encoding of an operation
Endpoint(op) ==
    CASE op.name = "create_payment" ->
            [path |-> <<"payments", "payment">>, verb |-> "POST", encoding |-> "JSON"]
      [] op.name = "payment_status" ->
            [path |-> <<"payments", "payment", op.id>>, verb |-> "GET", encoding |-> "NONE"]
      [] op.name = "refund_payment" ->
            [path |-> <<"payments", "payment", op.id, "refund">>, verb |-> "POST", encoding |-> "FORM"]
      [] op.name = "create_recurrence" ->
            [path |-> <<"payments", "payment", op.id, "create-recurrence">>, verb |-> "POST", encoding |-> "JSON"]
      [] op.name = "void_recurrence" ->
            [path |-> <<"payments", "payment", op.id, "void-recurrence">>, verb |-> "POST", encoding |-> "NONE"]
      [] op.name = "capture_preauthorization" ->
            [path |-> <<"payments", "payment", op.id, "capture">>, verb |-> "POST", encoding |-> "NONE"]
      [] op.name = "capture_preauthorization_partial" ->
            [path |-> <<"payments", "payment", op.id, "capture">>, verb |-> "POST", encoding |-> "JSON"]
      [] op.name = "void_preauthorization" ->
            [path |-> <<"payments", "payment", op.id, "void-authorization">>, verb |-> "POST", encoding |-> "NONE"]
      [] op.name = "fetch_payment_methods" ->
            [path |-> <<"eshops", "eshop", GOID, "payment-instruments">>, verb |-> "GET", encoding |-> "NONE"]
      [] op.name = "account_statement" ->
            [path |-> <<"accounts", "account-statement">>, verb |-> "POST", encoding |-> "JSON"]
      [] op.name = "eet_receipts" ->
            [path |-> <<"eet-receipts">>, verb |-> "POST", encoding |-> "JSON"]
      [] op.name = "payment_eet_receipts" ->
            [path |-> <<"payments", "payment", op.id, "eet-receipts">>, verb |-> "GET", encoding |-> "NONE"]

\* the exchange x is a request to the endpoint of op (whatever follows the
\* path of the endpoint, such as the currency filter, is not compared)
ToEndpoint(x, op) ==
    LET e == Endpoint(op)
    IN  /\ Len(x.request.url) >= 1 + Len(e.path)
        /\ SubSeq(x.request.url, 1, 1 + Len(e.path)) = <<API_ROOT>> \o e.path
        /\ x.request.method = e.verb
        /\ Encoding(x) = e.encoding

\* the most recent step was a call of a public operation
PublicCall == last_op.name \in PublicOps

(***************************************************************************)
(* C1: an authenticated call made d seconds after the recorded token       *)
(* issuance asks for a new token if and only if d > 1800, for every d      *)
(* (also for d of a day or more).                                          *)
(* Fails: timedelta.seconds is the duration modulo one day.                *)
(***************************************************************************)
C1_RefreshIffOlderThan1800 ==
    [][ last_op'.name \in PublicOps =>
            ((TokenRequests(wire') # {}) <=> (now - token_created > 1800)) ]_vars

(***************************************************************************)
(* C2: a token request of the session that is answered with                *)
(* success = false changes neither the stored token nor its recorded       *)
(* issuance time.                                                          *)
(* Fails: _get_token stamps _token_created before it sends the request.    *)
(***************************************************************************)
C2_FailedRefreshChangesNothing ==
    [][ (/\ phase = "READY"
         /\ \E i \in TokenRequests(wire') : ~wire'[i].result.success)
            => (token' = token /\ token_created' = token_created) ]_vars

(***************************************************************************)
(* C3: no operation of the session (construction, reload, public call)     *)
(* raises when the gateway answered one of its requests with               *)
(* success = false.                                                        *)
(* Fails: construction with a refused token request reads the unset        *)
(* attribute _token.                                                       *)
(***************************************************************************)
C3_NoRaiseOnGatewayFailure ==
    (\E i \in DOMAIN wire : ~wire[i].result.success) => outcome.raised = ""

(***************************************************************************)
(* C4: when a public call finds the token stale and the refresh is         *)
(* refused while an earlier token exists, the requested operation is       *)
(* still sent exactly once, with the earlier token, and the call returns   *)
(* the response of that request.                                           *)
(* Fails for eet_receipts, which raises before sending anything (C6).      *)
(***************************************************************************)
C4_OperationDispatchedAfterFailedRefresh ==
    (/\ PublicCall
     /\ acquired # None
     /\ Len(wire) >= 1
     /\ IsTokenRequest(wire[1])
     /\ ~wire[1].result.success)
        => /\ Len(wire) = 2
           /\ ToEndpoint(wire[2], last_op)
           /\ Bearer(wire[2], acquired[1].access_token[1])
           /\ outcome.raised = ""
           /\ outcome.ret = Some(wire[2].result)

(***************************************************************************)
(* C5: a public call made within 1800 seconds of the last successful       *)
(* token acquisition sends no token request, and every request it sends    *)
(* carries the access_token of that acquisition as bearer token; token     *)
(* requests are sent only by construction (exactly one), by reload, and    *)
(* by a call made more than 1800 seconds after the recorded issuance.      *)
(***************************************************************************)
C5_NoRefreshWithinWindow ==
    [][ /\ (last_op'.name \in PublicOps /\ acquired # None
                /\ now - acquired[1].at <= 1800)
            => \A i \in DOMAIN wire' :
                    /\ ~IsTokenRequest(wire'[i])
                    /\ Bearer(wire'[i], acquired[1].access_token[1])
        /\ (TokenRequests(wire') # {})
            => \/ last_op'.name \in {"__post_init__", "reload"}
               \/ last_op'.name \in PublicOps /\ now - token_created > 1800
        /\ last_op'.name = "__post_init__"
            => Cardinality(TokenRequests(wire')) = 1 ]_vars

\* a call made exactly 1800 seconds after the acquisition went out as one
\* request with the acquired token
C5_Witness ==
    /\ last_op.name = "payment_status"
    /\ acquired # None
    /\ now - acquired[1].at = 1800
    /\ Len(wire) = 1
    /\ Bearer(wire[1], acquired[1].access_token[1])
    /\ outcome.raised = ""

(***************************************************************************)
(* C6: each of the twelve public operations, called with a fresh token,    *)
(* sends exactly one request, to its own endpoint (path, verb, body        *)
(* encoding), with the current token as bearer token, and returns the      *)
(* response of that request; only the token request carries basic          *)
(* credentials.                                                            *)
(* Fails for eet_receipts: rest.eet_receipts calls the string api_root.    *)
(***************************************************************************)
C6_OneRequestToOwnEndpoint ==
    /\ (PublicCall /\ TokenRequests(wire) = {})
        => /\ Len(wire) = 1
           /\ ToEndpoint(wire[1], last_op)
           /\ token # None
           /\ Bearer(wire[1], token[1].str)
           /\ outcome.raised = ""
           /\ outcome.ret = Some(wire[1].result)
    /\ \A i \in DOMAIN wire :
            (wire[i].request.auth # <<>>) <=> IsTokenRequest(wire[i])

(***************************************************************************)
(* C7: in every result of the transport adapter, success is true exactly   *)
(* when the status is in [200, 300), whatever the body.                    *)
(* Fails: Response.ok is true for every status outside [400, 600).         *)
(***************************************************************************)
C7_SuccessIff2xx ==
    \A i \in DOMAIN wire :
        wire[i].result.success
            <=> (200 <= wire[i].result.status /\ wire[i].result.status < 300)

(***************************************************************************)
(* C8: the body create_payment sends is the body of the caller plus        *)
(* target = {type: ACCOUNT, goid: <configured goid>} when the caller gave  *)
(* no target, and exactly the body of the caller when it has a target.     *)
(***************************************************************************)
C8_DefaultTarget ==
    last_op.name = "create_payment"
        => /\ outcome.raised = ""
           /\ wire # <<>>
           /\ LET body == last_op.body[1]
                  sent == wire[Len(wire)].request.json
              IN  /\ sent # None
                  /\ IF "target" \in DOMAIN body
                     THEN sent[1] = body
                     ELSE /\ DOMAIN sent[1] = DOMAIN body \cup {"target"}
                          /\ \A k \in DOMAIN body : sent[1][k] = body[k]
                          /\ sent[1]["target"] = [type |-> "ACCOUNT", goid |-> GOID]

\* a payment without target went out with the default target
C8_Witness ==
    /\ last_op.name = "create_payment"
    /\ "target" \notin DOMAIN last_op.body[1]
    /\ wire # <<>>
    /\ wire[Len(wire)].request.json # None
    /\ wire[Len(wire)].request.json[1]["target"] = [type |-> "ACCOUNT", goid |-> GOID]

(***************************************************************************)
(* C9: LastResponse is the response of the most recent request the         *)
(* session sent; when a public call returns, LastResponse is what it       *)
(* returned, also when the call refreshed the token first.                 *)
(***************************************************************************)
C9_LastResponseIsLastTransport ==
    /\ IF last_exchange = None THEN last_response = None
       ELSE last_response = Some(last_exchange[1].result)
    /\ (PublicCall /\ outcome.raised = "")
        => /\ wire # <<>>
           /\ outcome.ret = Some(wire[Len(wire)].result)
           /\ last_response = outcome.ret

\* a call refreshed the token: the response of the refresh was overwritten
\* by the response of the operation
C9_Witness ==
    /\ PublicCall
    /\ Len(wire) = 2
    /\ IsTokenRequest(wire[1])
    /\ wire[2].result # wire[1].result
    /\ last_response = Some(wire[2].result)

(***************************************************************************)
(* C10: reload always sends a token request, stale token or not, then a    *)
(* payment-instruments request, and when both succeed the token, its       *)
(* issuance time and both tables are replaced by the values of the new     *)
(* responses.                                                              *)
(* Fails for a catalogue without BANK_ACCOUNT, on which                    *)
(* _get_payment_methods raises before it stores anything (C13).            *)
(***************************************************************************)
C10_ReloadReplacesAll ==
    [][ last_op'.name = "reload" =>
            /\ Len(wire') = 2
            /\ IsTokenRequest(wire'[1])
            /\ ToEndpoint(wire'[2], Op("fetch_payment_methods"))
            /\ (wire'[1].result.success /\ wire'[2].result.success)
                => LET access_token == wire'[1].result.body.dict.access_token[1]
                       catalogue == wire'[2].result.body.dict.enabledPaymentInstruments[1]
                       bank == DictGet(catalogue, "BANK_ACCOUNT")
                   IN  /\ token' = Some(PyStr(access_token))
                       /\ token_created' = now
                       /\ enabled_payment_instruments' = Some(_parse_entries(catalogue))
                       /\ enabled_swifts' =
                            Some(IF bank = None THEN <<>>
                                 ELSE _parse_entries(bank[1].enabledSwifts[1])) ]_vars

(***************************************************************************)
(* Vocabulary of the properties on the tables                              *)
(***************************************************************************)
\* the keys of a table, and the names of the entries under a key (none if
\* the key is missing)
Keys(table) == {table[i].key : i \in DOMAIN table}

Names(entries) == [i \in DOMAIN entries |-> entries[i].name]

NamesUnder(table, key) ==
    IF DictGet(table, key) = None THEN <<>> ELSE Names(DictGet(table, key)[1])

\* the keys of the raw instruments (or SWIFT entries) that list currency
RawListing(entries, currency) ==
    LET listing == SelectSeq(entries,
                        LAMBDA e : currency \in Range(e.value.currencies))
    IN  [i \in DOMAIN listing |-> listing[i].key]

\* the tables the object exposes in the current state
InstrumentTable == _get_entries(enabled_payment_instruments[1], FALSE)

SwiftTable == _get_entries(enabled_swifts[1], TRUE)

(***************************************************************************)
(* C11: for every raw catalogue the instrument table is built from and     *)
(* every currency C, C is a key of the table exactly when some instrument  *)
(* lists C (BANK_ACCOUNT: as a key of its currencies mapping), and the     *)
(* entries under C are exactly the instruments that list C, in the order   *)
(* of the catalogue; an instrument without currencies is under no key and  *)
(* reading the table does not raise.                                       *)
(***************************************************************************)
C11_InstrumentTableByCurrency ==
    \A cat \in RawCatalogues :
        (enabled_payment_instruments = Some(_parse_entries(cat)))
            => /\ \A C \in Range(CurrencyCodes) :
                    /\ (C \in Keys(InstrumentTable)) <=> (RawListing(cat, C) # <<>>)
                    /\ NamesUnder(InstrumentTable, C) = RawListing(cat, C)
               /\ last_op.name = "payment_instruments"
                    => /\ outcome.raised = ""
                       /\ outcome.ret = Some(InstrumentTable)

\* the table of a catalogue was read in which the card has no currency and
\* two instruments share a currency only partly
C11_Witness ==
    /\ last_op.name = "payment_instruments"
    /\ outcome.raised = ""
    /\ enabled_payment_instruments # None
    /\ \E i \in DOMAIN enabled_payment_instruments[1] :
            enabled_payment_instruments[1][i].currencies = <<>>
    /\ outcome.ret = Some(InstrumentTable)
    /\ Keys(InstrumentTable) = {"CZK", "EUR"}

\* the currencies of the SWIFT table according to the specification
SupportedSwiftCurrencies == {"CZK", "EUR", "PLN"}

\* the raw catalogue of the most recent exchange, if that was a granted
\* payment-instruments request answered with a catalogue
ReceivedCatalogue ==
    IF /\ last_exchange # None
       /\ ToEndpoint(last_exchange[1], Op("fetch_payment_methods"))
       /\ last_exchange[1].result.success
       /\ last_exchange[1].result.body.isdict
    THEN last_exchange[1].result.body.dict.enabledPaymentInstruments
    ELSE None

\* the most recent step built the tables
Building == last_op.name \in {"__post_init__", "reload"}

(***************************************************************************)
(* C12: whatever the raw catalogue, also when SWIFT entries of             *)
(* BANK_ACCOUNT declare a currency other than CZK, EUR and PLN, the SWIFT  *)
(* table of the object has no key outside {CZK, EUR, PLN}.                 *)
(* Fails: the keys are the currencies of the SWIFT entries, whatever they  *)
(* are.                                                                    *)
(***************************************************************************)
C12_SwiftKeysSupported ==
    /\ enabled_swifts # None => Keys(SwiftTable) \subseteq SupportedSwiftCurrencies
    /\ (last_op.name = "enabled_swifts" /\ outcome.raised = "")
        => Keys(outcome.ret[1]) \subseteq SupportedSwiftCurrencies

(***************************************************************************)
(* C13: when the payment-instruments request of a construction or of a     *)
(* reload is answered with a catalogue that has no BANK_ACCOUNT entry,     *)
(* the operation does not raise, the instrument table is built from the    *)
(* instruments of that catalogue, and the SWIFT table is an empty mapping. *)
(* Fails: _get_payment_methods calls get on the missing entry.             *)
(***************************************************************************)
C13_NoBankAccount ==
    (/\ Building
     /\ ReceivedCatalogue # None
     /\ DictGet(ReceivedCatalogue[1], "BANK_ACCOUNT") = None)
        => /\ outcome.raised = ""
           /\ enabled_payment_instruments = Some(_parse_entries(ReceivedCatalogue[1]))
           /\ enabled_swifts # None
           /\ SwiftTable = <<>>

(***************************************************************************)
(* C14: for every raw catalogue with a BANK_ACCOUNT entry the tables are   *)
(* built from, and every currency c of {CZK, EUR, PLN} that is a currency  *)
(* of the catalogue (a key of the instrument table), the SWIFT table has   *)
(* the key c, and under it exactly the SWIFT codes of                      *)
(* BANK_ACCOUNT.enabledSwifts that declare c, in their order (none if no   *)
(* SWIFT declares c).                                                      *)
(* Fails: a currency that no SWIFT entry declares is not a key of the      *)
(* SWIFT table.                                                            *)
(***************************************************************************)
C14_SwiftsByCurrency ==
    \A cat \in RawCatalogues :
        (/\ DictGet(cat, "BANK_ACCOUNT") # None
         /\ DictGet(cat, "BANK_ACCOUNT")[1].enabledSwifts # None
         /\ enabled_payment_instruments = Some(_parse_entries(cat))
         /\ enabled_swifts =
                Some(_parse_entries(DictGet(cat, "BANK_ACCOUNT")[1].enabledSwifts[1])))
            => \A c \in SupportedSwiftCurrencies \cap Keys(InstrumentTable) :
                    /\ c \in Keys(SwiftTable)
                    /\ NamesUnder(SwiftTable, c) =
                         RawListing(DictGet(cat, "BANK_ACCOUNT")[1].enabledSwifts[1], c)

(***************************************************************************)
(* C15: when account_statement or eet_receipts is called without date_to,  *)
(* the date_to of the request that goes out is the calendar date of the    *)
(* moment of the call, also when the call is made on a later day than the  *)
(* day the library was loaded.                                             *)
(* Fails: the default date.today() is evaluated once, when the class body  *)
(* is executed.                                                            *)
(***************************************************************************)
C15_DefaultDateToIsToday ==
    (/\ last_op.name \in {"account_statement", "eet_receipts"}
     /\ last_op.date_to = None
     /\ outcome.raised = "")
        => /\ wire # <<>>
           /\ wire[Len(wire)].request.json # None
           /\ wire[Len(wire)].request.json[1].date_to = str(date_today(now))

(***************************************************************************)
(* C16: the URL of a payment-instruments request is                        *)
(* <api_root>/eshops/eshop/<goid>/payment-instruments/<currency> when a    *)
(* currency is given; without a currency there is no part after            *)
(* payment-instruments (no empty trailing part).                           *)
(* Fails: without a currency the URL ends in "payment-instruments/".       *)
(***************************************************************************)
C16_PaymentMethodsUrl ==
    \A i \in DOMAIN wire :
        ToEndpoint(wire[i], Op("fetch_payment_methods"))
            => wire[i].request.url =
                 <<API_ROOT, "eshops", "eshop", GOID, "payment-instruments">>
                    \o (IF last_op.name = "fetch_payment_methods"
                        THEN last_op.currency ELSE None)

NoCurrencyFilter(x) ==
    /\ ToEndpoint(x, Op("fetch_payment_methods"))
    /\ \A i \in DOMAIN x.request.url : i > 5 => x.request.url[i] = ""

(***************************************************************************)
(* C18: construction sends exactly one token request, first, and then      *)
(* exactly one payment-instruments request, without currency filter and    *)
(* with the token just acquired; the object is READY only after both       *)
(* exchanges, and no public call is made before a token was acquired.      *)
(* Fails: when the token request is refused, construction raises (C3)      *)
(* and the payment-instruments request is never sent.                      *)
(***************************************************************************)
C18_ConstructionEagerOrdered ==
    /\ last_op.name = "__post_init__"
        => /\ Len(wire) = 2
           /\ IsTokenRequest(wire[1])
           /\ NoCurrencyFilter(wire[2])
           /\ wire[1].result.success
                => Bearer(wire[2], wire[1].result.body.dict.access_token[1])
    /\ phase = "READY" => (acquired # None /\ last_exchange # None)
    /\ PublicCall => (phase = "READY" /\ acquired # None)

\* the SWIFT entries of a raw catalogue (none without BANK_ACCOUNT or
\* without its enabledSwifts)
SwiftsOf(cat) ==
    IF DictGet(cat, "BANK_ACCOUNT") = None THEN <<>>
    ELSE IF DictGet(cat, "BANK_ACCOUNT")[1].enabledSwifts = None THEN <<>>
         ELSE DictGet(cat, "BANK_ACCOUNT")[1].enabledSwifts[1]

(***************************************************************************)
(* C19: the two tables always come from the same payment-instruments       *)
(* response: a construction or a reload that leaves an object behind,      *)
(* whether it ran to its end or raised on the way, either leaves both      *)
(* tables as they were or leaves both built from the catalogue it          *)
(* received.                                                               *)
(* Fails: for a BANK_ACCOUNT entry without enabledSwifts the instruments   *)
(* are stored before parsing the SWIFT entries raises.                     *)
(***************************************************************************)
C19_TablesFromSameResponse ==
    [][ (last_op'.name \in {"__post_init__", "reload"} /\ phase' = "READY")
            => \/ /\ enabled_payment_instruments' = enabled_payment_instruments
                  /\ enabled_swifts' = enabled_swifts
               \/ /\ ReceivedCatalogue' # None
                  /\ enabled_payment_instruments' =
                        Some(_parse_entries(ReceivedCatalogue'[1]))
                  /\ enabled_swifts' =
                        Some(_parse_entries(SwiftsOf(ReceivedCatalogue'[1]))) ]_vars

(***************************************************************************)
(* C20: the refresh is not single-flight.  A thread that found the token   *)
(* expired sends a token request of its own when it goes on, whatever      *)
(* another thread did to the token in between; so when two threads call    *)
(* the object with an expired token, both can find the same token expired  *)
(* and both send a token request (the witness).                            *)
(***************************************************************************)
C20_RefreshNotSingleFlight ==
    [][ \A t \in Callers :
            /\ (callers[t].pc = "idle" /\ callers'[t].pc # "idle")
                => /\ callers'[t].observed = Some(token_created)
                   /\ (callers'[t].pc = "stale")
                        <=> (timedelta_seconds(now - token_created) > 1800)
            /\ (callers[t].pc = "stale" /\ callers'[t].pc # "stale")
                => /\ Len(wire') = 1
                   /\ IsTokenRequest(wire'[1])
                   /\ callers'[t].wire = callers[t].wire \o wire' ]_vars

\* both threads found the token issued at the same moment expired, and
\* each of them has sent a token request
C20_Witness ==
    /\ callers["c1"].observed # None
    /\ callers["c1"].observed = callers["c2"].observed
    /\ TokenRequests(callers["c1"].wire) # {}
    /\ TokenRequests(callers["c2"].wire) # {}

(***************************************************************************)
(* C21: when the payment-instruments request of a reload is answered with  *)
(* success = false, both tables stay as they were, reload does not raise,  *)
(* and the refusal is what LastResponse holds.                             *)
(***************************************************************************)
C21_RefusedReloadKeepsTables ==
    [][ (/\ last_op'.name = "reload"
         /\ wire' # <<>>
         /\ ToEndpoint(wire'[Len(wire')], Op("fetch_payment_methods"))
         /\ ~wire'[Len(wire')].result.success)
            => /\ enabled_payment_instruments' = enabled_payment_instruments
               /\ enabled_swifts' = enabled_swifts
               /\ outcome'.raised = ""
               /\ last_response' = Some(wire'[Len(wire')].result) ]_vars

\* a reload of an object with both tables built got a new token and a
\* refusal of its payment-instruments request
C21_Witness ==
    /\ last_op.name = "reload"
    /\ Len(wire) = 2
    /\ wire[1].result.success
    /\ ToEndpoint(wire[2], Op("fetch_payment_methods"))
    /\ ~wire[2].result.success
    /\ outcome.raised = ""
    /\ enabled_payment_instruments # None
    /\ enabled_swifts # None
    /\ last_response = Some(wire[2].result)

====
